---------------------------- MODULE Spec2Model ----------------------------
(***************************************************************************)
(* A model of src/script.py: the seed loop of run() with its store, the    *)
(* query driver set_query_and_search_fast(), and the text functions norm() *)
(* and extract_unique_addresses() it calls.                                *)
(*                                                                         *)
(* A Python str is a sequence of one-character strings.  A compiled        *)
(* regular expression is a sequence of items, matched by backtracking in   *)
(* the order Python's re module tries the alternatives:                    *)
(*   [t |-> "cls", c, min, max, greedy]  a quantified character class      *)
(*   [t |-> "opt", seq]                  a greedy optional group (...)?    *)
(*   [t |-> "wb"]                        the assertion \b                  *)
(***************************************************************************)
EXTENDS Integers, Sequences, FiniteSets, TLC

(***************************************************************************)
(* Characters                                                              *)
(***************************************************************************)
Digits == {"0", "1", "2", "3", "4", "5", "6", "7", "8", "9"}

Letters ==
    {"a", "b", "c", "d", "e", "f", "g", "h", "i", "j", "k", "l", "m",
     "n", "o", "p", "q", "r", "s", "t", "u", "v", "w", "x", "y", "z",
     "A", "B", "C", "D", "E", "F", "G", "H", "I", "J", "K", "L", "M",
     "N", "O", "P", "Q", "R", "S", "T", "U", "V", "W", "X", "Y", "Z"}

\* \s of re, and the characters str.strip() removes
Whitespace == {" ", "\n", "\t", "\r"}

\* the separators str.splitlines() splits at
LineBreaks == {"\n", "\r"}

\* \w of re
WordChars == Letters \cup Digits \cup {"_"}

Punct == {",", ".", "(", ")", "-", ":", "#"}

Chars == Letters \cup Digits \cup Whitespace \cup Punct \cup {"_"}

\* . of re without DOTALL
AnyChar == Chars \ {"\n"}

\* [^,]
NotComma == Chars \ {","}

Max(a, b) == IF a >= b THEN a ELSE b

Min(a, b) == IF a <= b THEN a ELSE b

(***************************************************************************)
(* The regular-expression matcher                                          *)
(***************************************************************************)
\* an unbounded quantifier's upper limit: no string of the model is longer
Unbounded == 1000

One(c) == [t |-> "cls", c |-> c, min |-> 1, max |-> 1, greedy |-> TRUE]

Plus(c) == [t |-> "cls", c |-> c, min |-> 1, max |-> Unbounded, greedy |-> TRUE]

Star(c) == [t |-> "cls", c |-> c, min |-> 0, max |-> Unbounded, greedy |-> TRUE]

LazyPlus(c) == [t |-> "cls", c |-> c, min |-> 1, max |-> Unbounded, greedy |-> FALSE]

Rep(c, lo, hi) == [t |-> "cls", c |-> c, min |-> lo, max |-> hi, greedy |-> TRUE]

Opt(seq) == [t |-> "opt", seq |-> seq]

WordB == [t |-> "wb"]

\* a letter under re.IGNORECASE
CI(lower, upper) == One({lower, upper})

IsWord(s, k) == k >= 1 /\ k <= Len(s) /\ s[k] \in WordChars

\* \b before the character at pos
AtWordBoundary(s, pos) == IsWord(s, pos - 1) # IsWord(s, pos)

MinOf(S) == CHOOSE x \in S : \A y \in S : x <= y

\* how many characters from pos on lie in class c, counted up to limit
RunLength(s, pos, c, limit) ==
    LET stops == {k \in pos..Len(s) : s[k] \notin c}
    IN  Min(limit, IF stops = {} THEN Len(s) - pos + 1 ELSE MinOf(stops) - pos)

\* the position after the match of items at pos that backtracking finds
\* first, or 0 when there is none
RECURSIVE MatchSeq(_, _, _), TryCounts(_, _, _, _, _)
MatchSeq(items, s, pos) ==
    IF Len(items) = 0
    THEN pos
    ELSE LET it == Head(items)
             rest == Tail(items)
         IN  CASE it.t = "wb" ->
                    IF AtWordBoundary(s, pos) THEN MatchSeq(rest, s, pos) ELSE 0
               [] it.t = "opt" ->
                    LET r == MatchSeq(it.seq \o rest, s, pos)
                    IN  IF r # 0 THEN r ELSE MatchSeq(rest, s, pos)
               [] OTHER ->
                    TryCounts(it, rest, s, pos, RunLength(s, pos, it.c, it.max))

\* item it takes n of the avail characters at pos, n tried from avail down
\* when greedy and from it.min up when lazy; the first n after which rest
\* matches decides
TryCounts(it, rest, s, pos, avail) ==
    LET tries == {<<n, MatchSeq(rest, s, pos + n)>> : n \in it.min..avail}
        ok == {r \in tries : r[2] # 0}
    IN  IF ok = {} THEN 0
        ELSE IF it.greedy
             THEN (CHOOSE r \in ok : \A q \in ok : r[1] >= q[1])[2]
             ELSE (CHOOSE r \in ok : \A q \in ok : r[1] <= q[1])[2]

\* pattern.search(s) from position from on: <<start, end>> of the leftmost
\* match (end is the position after it), <<0, 0>> when there is none
SearchFrom(items, s, from) ==
    LET hits == {h \in {<<p, MatchSeq(items, s, p)>> : p \in from..(Len(s) + 1)} :
                    h[2] # 0}
    IN  IF hits = {} THEN <<0, 0>> ELSE CHOOSE h \in hits : \A g \in hits : h[1] <= g[1]

Search(items, s) == SearchFrom(items, s, 1)

Found(items, s) == Search(items, s)[1] # 0

\* re.sub(pattern, repl, s) for a pattern that matches no empty string
RECURSIVE SubFrom(_, _, _, _)
SubFrom(items, repl, s, from) ==
    LET m == SearchFrom(items, s, from)
    IN  IF m[1] = 0
        THEN SubSeq(s, from, Len(s))
        ELSE SubSeq(s, from, m[1] - 1) \o repl \o SubFrom(items, repl, s, m[2])

Sub(items, repl, s) == SubFrom(items, repl, s, 1)

(***************************************************************************)
(* str methods                                                             *)
(***************************************************************************)
RECURSIVE lstrip(_)
lstrip(s) == IF Len(s) > 0 /\ Head(s) \in Whitespace THEN lstrip(Tail(s)) ELSE s

RECURSIVE rstrip(_)
rstrip(s) ==
    IF Len(s) > 0 /\ s[Len(s)] \in Whitespace
    THEN rstrip(SubSeq(s, 1, Len(s) - 1))
    ELSE s

strip(s) == rstrip(lstrip(s))

\* the position of the first line break at or after pos, Len(s) + 1 if none
NextBreak(s, pos) ==
    LET breaks == {k \in pos..Len(s) : s[k] \in LineBreaks}
    IN  IF breaks = {} THEN Len(s) + 1 ELSE MinOf(breaks)

\* the length of the line break at pos: "\r\n" is one break
BreakLen(s, pos) ==
    IF s[pos] = "\r" /\ pos < Len(s) /\ s[pos + 1] = "\n" THEN 2 ELSE 1

\* str.splitlines(): no empty last line after a final line break
RECURSIVE SplitFrom(_, _)
SplitFrom(s, pos) ==
    IF pos > Len(s)
    THEN <<>>
    ELSE LET b == NextBreak(s, pos)
         IN  IF b > Len(s)
             THEN <<SubSeq(s, pos, Len(s))>>
             ELSE <<SubSeq(s, pos, b - 1)>> \o SplitFrom(s, b + BreakLen(s, b))

splitlines(s) == SplitFrom(s, 1)

\* sep.join(parts)
RECURSIVE Join(_, _)
Join(sep, parts) ==
    IF Len(parts) = 0 THEN <<>>
    ELSE IF Len(parts) = 1 THEN parts[1]
    ELSE parts[1] \o sep \o Join(sep, Tail(parts))

Lit(s) == [k \in 1..Len(s) |-> One({s[k]})]

\* a literal under re.IGNORECASE, given in lower and in upper case
LitCI(lower, upper) == [k \in 1..Len(lower) |-> CI(lower[k], upper[k])]

(***************************************************************************)
(* The module constants of script.py                                       *)
(***************************************************************************)
CA_ZIP_MIN == 90000

CA_ZIP_MAX == 96199

\* (?:-\d{4})?
Plus4 == Opt(<<One({"-"}), Rep(Digits, 4, 4)>>)

\* CA\s+9\d{4}(?:-\d{4})? under re.IGNORECASE
RegionAndZip ==
    <<CI("c", "C"), CI("a", "A"), Plus(Whitespace), One({"9"}),
      Rep(Digits, 4, 4), Plus4>>

ZIP_ANCHOR == <<WordB>> \o RegionAndZip \o <<WordB>>

MILES_ANYWHERE ==
    <<One({"("}), Star(Whitespace), Plus(Digits),
      Opt(<<One({"."}), Plus(Digits)>>), Star(Whitespace), One({")"}),
      Star(Whitespace)>>
    \o LitCI(<<"m", "i", "l", "e">>, <<"M", "I", "L", "E">>)
    \o <<Rep({"s", "S"}, 0, 1), Rep({"."}, 0, 1)>>

PHONE_ANYWHERE ==
    LitCI(<<"p", "h", "o", "n", "e">>, <<"P", "H", "O", "N", "E">>)
    \o <<One({":"}), Star(Whitespace), One({"("}), Rep(Digits, 3, 3), One({")"}),
         Star(Whitespace), Rep(Digits, 3, 3), One({"-"}), Rep(Digits, 4, 4)>>

GET_DIRECTIONS_ANYWHERE ==
    LitCI(<<"g", "e", "t">>, <<"G", "E", "T">>)
    \o <<Plus(Whitespace)>>
    \o LitCI(<<"d", "i", "r", "e", "c", "t", "i", "o", "n", "s">>,
             <<"D", "I", "R", "E", "C", "T", "I", "O", "N", "S">>)
    \o <<Star(Whitespace)>>

ADDRESS_EXTRACT ==
    <<Rep(Digits, 1, 8), Plus(Whitespace), LazyPlus(AnyChar), One({","}),
      Star(Whitespace), LazyPlus(NotComma), One({","}), Star(Whitespace)>>
    \o RegionAndZip

(***************************************************************************)
(* norm                                                                    *)
(***************************************************************************)
norm_NoStrip(s) ==
    LET s1 == Sub(<<Plus(Whitespace)>>, <<" ">>, s)
        s2 == Sub(<<Plus(Whitespace), One({","})>>, <<",">>, s1)
    IN  Sub(<<One({","}), Plus(Whitespace)>>, <<",", " ">>, s2)

norm(s) ==
    LET s1 == strip(Sub(<<Plus(Whitespace)>>, <<" ">>, s))
        s2 == Sub(<<Plus(Whitespace), One({","})>>, <<",">>, s1)
    IN  Sub(<<One({","}), Plus(Whitespace)>>, <<",", " ">>, s2)

(***************************************************************************)
(* extract_address_only: the address in a line or block, as                *)
(* [found |-> BOOLEAN, val |-> str]; found = FALSE is None                 *)
(***************************************************************************)
None == [found |-> FALSE, val |-> <<>>]

Some(v) == [found |-> TRUE, val |-> v]

\* the line after the three decorations are removed and norm is reapplied
Cleaned(line_or_block) ==
    LET s0 == norm(line_or_block)
        s1 == Sub(GET_DIRECTIONS_ANYWHERE, <<>>, s0)
        s2 == Sub(MILES_ANYWHERE, <<>>, s1)
        s3 == Sub(PHONE_ANYWHERE, <<>>, s2)
    IN  norm(s3)

\* s.lower().rfind(", ca ") != -1
HasCommaCA(s) ==
    Found(<<One({","}), One({" "}), CI("c", "C"), CI("a", "A"), One({" "})>>, s)

\* lines 52-55: the whole cleaned line s as a best-effort address
BestEffort(s) ==
    IF Found(ZIP_ANCHOR, s) /\ Found(<<One(Digits)>>, s) /\ HasCommaCA(s)
    THEN Some(norm(strip(s)))
    ELSE None

\* lines 48-57, with m the result of ADDRESS_EXTRACT.search(s)
AddressAt(s, m) ==
    IF m[1] # 0 THEN Some(norm(SubSeq(s, m[1], m[2] - 1))) ELSE BestEffort(s)

\* lines 48-57 on the cleaned text s
AddressIn(s) == AddressAt(s, Search(ADDRESS_EXTRACT, s))

extract_address_only(line_or_block) == AddressIn(Cleaned(line_or_block))

(***************************************************************************)
(* extract_unique_addresses                                                *)
(***************************************************************************)
\* <<ln>> unless ln is empty
IfNonEmpty(ln) == IF Len(ln) > 0 THEN <<ln>> ELSE <<>>

\* line 61
RECURSIVE NonBlankStripped(_)
NonBlankStripped(lines) ==
    IF Len(lines) = 0 THEN <<>>
    ELSE IfNonEmpty(strip(Head(lines))) \o NonBlankStripped(Tail(lines))

\* line 62
NormEach(raw_lines) == [k \in 1..Len(raw_lines) |-> norm(raw_lines[k])]

cleaned_lines(sidebar_text) == NormEach(NonBlankStripped(splitlines(sidebar_text)))

\* the first loop: every line with the anchor, on its own
\* if a: out.append(a)
IfAddress(a) == IF a.found /\ Len(a.val) > 0 THEN <<a.val>> ELSE <<>>

\* lines 67-70 for one line
AnchorLine(ln) == IfAddress(IF Found(ZIP_ANCHOR, ln) THEN extract_address_only(ln) ELSE None)

RECURSIVE AnchorPass(_)
AnchorPass(lines) ==
    IF Len(lines) = 0 THEN <<>> ELSE AnchorLine(Head(lines)) \o AnchorPass(Tail(lines))

\* block[-k:]
LastK(block, k) == SubSeq(block, Len(block) - k + 1, Len(block))

\* for k in (2, 3, 4, 5): the first join of the last k lines that yields an
\* address, from k on
RECURSIVE TryJoins(_, _), JoinOrNext(_, _, _)
TryJoins(block, k) ==
    IF k > 5 THEN <<>>
    ELSE JoinOrNext(IF Len(block) >= k
                    THEN extract_address_only(Join(<<" ">>, LastK(block, k)))
                    ELSE None,
                    block, k)

\* lines 82-84, with a the address of the join of the last k lines
JoinOrNext(a, block, k) ==
    IF a.found /\ Len(a.val) > 0 THEN <<a.val>> ELSE TryJoins(block, k + 1)

\* block after line number n was appended and cut to its last 5 lines
BlockAt(lines, n) == SubSeq(lines, Max(1, n - 4), n)

\* the second loop, from line number n on
RECURSIVE WindowPass(_, _)
WindowPass(lines, n) ==
    IF n > Len(lines) THEN <<>>
    ELSE (IF Found(ZIP_ANCHOR, lines[n]) THEN TryJoins(BlockAt(lines, n), 2) ELSE <<>>)
         \o WindowPass(lines, n + 1)

InSeq(x, seq) == \E k \in 1..Len(seq) : seq[k] = x

\* the last loop: norm each, keep the first occurrence of each non-empty one
\* lines 90-92
AddUnique(a2, uniq) ==
    IF Len(a2) > 0 /\ ~InSeq(a2, uniq) THEN Append(uniq, a2) ELSE uniq

RECURSIVE Uniq(_, _)
Uniq(out, uniq) ==
    IF Len(out) = 0 THEN uniq ELSE Uniq(Tail(out), AddUnique(norm(Head(out)), uniq))

\* lines 64-93 on the cleaned lines
BothPasses(lines) == Uniq(AnchorPass(lines) \o WindowPass(lines, 1), <<>>)

extract_unique_addresses(sidebar_text) == BothPasses(cleaned_lines(sidebar_text))

(***************************************************************************)
(* generate_ca_zip_seeds                                                   *)
(***************************************************************************)
\* len(range(start, stop, step)) for step # 0
RangeLen(start, stop, step) ==
    IF step > 0
    THEN IF start < stop THEN ((stop - start - 1) \div step) + 1 ELSE 0
    ELSE IF start > stop THEN ((start - stop - 1) \div (0 - step)) + 1 ELSE 0

\* range(start, stop, step) for step # 0
Range(start, stop, step) ==
    [k \in 1..RangeLen(start, stop, step) |-> start + (k - 1) * step]

DigitChar(d) ==
    CASE d = 0 -> "0" [] d = 1 -> "1" [] d = 2 -> "2" [] d = 3 -> "3" [] d = 4 -> "4"
      [] d = 5 -> "5" [] d = 6 -> "6" [] d = 7 -> "7" [] d = 8 -> "8" [] OTHER -> "9"

\* str(z) for z >= 0
RECURSIVE Decimal(_)
Decimal(z) ==
    IF z < 10 THEN <<DigitChar(z)>> ELSE Append(Decimal(z \div 10), DigitChar(z % 10))

RECURSIVE ZeroPad(_, _)
ZeroPad(s, width) == IF Len(s) >= width THEN s ELSE ZeroPad(<<"0">> \o s, width)

\* f"{z:05d}" for z >= 0
Format05d(z) == ZeroPad(Decimal(z), 5)

\* defined for step # 0: range() raises ValueError for step = 0
FormatEach(zs) == [k \in 1..Len(zs) |-> Format05d(zs[k])]

\* line 30
SeedStart(step, jitter) == IF jitter THEN CA_ZIP_MIN + (step \div 2) ELSE CA_ZIP_MIN

generate_ca_zip_seeds_ExclusiveMax(step, jitter) ==
    FormatEach(Range(SeedStart(step, jitter), CA_ZIP_MAX, step))

\* defined for step # 0: range() raises ValueError for step = 0
generate_ca_zip_seeds(step, jitter) ==
    FormatEach(Range(SeedStart(step, jitter), CA_ZIP_MAX + 1, step))

(***************************************************************************)
(* The page: what the results panel may show                               *)
(***************************************************************************)
PanelEmpty == <<>>

\* "No results"
PanelNoResults == <<"N", "o", " ", "r", "e", "s", "u", "l", "t", "s">>

\* "1 A, B, CA 90001\n"
PanelOne ==
    <<"1", " ", "A", ",", " ", "B", ",", " ", "C", "A", " ", "9", "0", "0", "0", "1", "\n">>

\* "1 A, B, CA 90001\n2 C, D, CA 90002"
PanelTwo ==
    <<"1", " ", "A", ",", " ", "B", ",", " ", "C", "A", " ", "9", "0", "0", "0", "1", "\n",
      "2", " ", "C", ",", " ", "D", ",", " ", "C", "A", " ", "9", "0", "0", "0", "2">>

Panels == {PanelEmpty, PanelNoResults, PanelOne, PanelTwo}

(***************************************************************************)
(* The command line (lines 258-265) and what __main__ passes to run()      *)
(***************************************************************************)
\* max_queries = None
NoCap == -1

ArgMaxQueries == {-1, 0, 2, 5}

ArgZipStep == {-1, 0, 2000}

ArgReloadEvery == {-1, 0, 1, 2}

ArgDelayMs == {0, 150}

Args ==
    [max_queries : ArgMaxQueries, zip_step : ArgZipStep,
     reload_every : ArgReloadEvery, delay_ms : ArgDelayMs]

\* None if args.max_queries <= 0 else args.max_queries
MaxQueriesOf(a) == IF a.max_queries <= 0 THEN NoCap ELSE a.max_queries

(***************************************************************************)
(* The store file                                                          *)
(***************************************************************************)
\* "address\n"
Header == <<"a", "d", "d", "r", "e", "s", "s">>

NL == <<"\n">>

\* splitlines()[1:]
\* lines[1:]
From1(lines) == IF Len(lines) = 0 THEN <<>> ELSE Tail(lines)

AfterHeader(text) == From1(splitlines(text))

\* the loop of lines 190-193 over lines
StrippedNonEmpty(lines) ==
    {strip(lines[k]) : k \in {j \in 1..Len(lines) : Len(strip(lines[j])) > 0}}

LoadSeen_WithHeader(text) == StrippedNonEmpty(splitlines(text))

LoadSeen(text) == StrippedNonEmpty(AfterHeader(text))

NewAddrs_Unfiltered(addrs, seenSet) == addrs

\* [a for a in addrs if a not in seen]
NewAddrs(addrs, seenSet) ==
    LET keep(a) == a \notin seenSet
    IN  SelectSeq(addrs, keep)

Written_Nothing(new_addrs) == <<>>

\* what the loop of lines 241-244 writes
RECURSIVE Written(_)
Written(new_addrs) ==
    IF Len(new_addrs) = 0 THEN <<>>
    ELSE norm(Head(new_addrs)) \o NL \o Written(Tail(new_addrs))

\* what the loop of lines 241-244 adds to seen
Added(new_addrs) == {norm(new_addrs[k]) : k \in 1..Len(new_addrs)}

(***************************************************************************)
(* The state of the script running on an output file that outlives it      *)
(***************************************************************************)
VARIABLES
    args,        \* the parsed command line
    pc,          \* the await the coroutine run() is suspended at
    raised,      \* where an exception left run(), "none" if none did
    fileExists,  \* out_path.exists()
    file,        \* the text of out_path
    seen,        \* run(): seen
    zips,        \* run(): zips
    i,           \* run(): i of the for loop, -1 before the first iteration
    mode1,       \* run(): mode1, "none" while unassigned
    mode2,       \* run(): mode2
    mode,        \* run(): mode
    queries,     \* the query arguments of this seed's calls of set_query_and_search_fast
    form,        \* which of the two calls is under way: "bare" or "qualified"
    before,      \* set_query_and_search_fast(): before
    polls,       \* wait_sidebar_change(): snapshots of the loop that saw no change
    field,       \* what the write of this call did to #addressInput: "unwritten"
                 \* before it, "query" when el.value = q, "missing" when el is null
    searched,    \* whether this call has triggered the search
    printed,     \* how many progress lines were printed (line 247)
    line,        \* the progress line of this seed, index 0 while not printed
    reloaded,    \* the last "[reload] after i queries" printed (line 221), and
                 \* whether the re-bootstrap after it has completed
    harvest,     \* the addresses extracted by the seed cycles completed in this run
    sidebar,     \* the page: inner text of #sidebar as a snapshot finds it
                 \* (empty also when the element is missing or the read raises)
    call,        \* a function of the module called on its own: its name and arguments
    result       \* what that call returned

vars ==
    <<args, pc, raised, fileExists, file, seen, zips, i, mode1, mode2, mode,
      queries, form, before, polls, field, searched, printed, line, reloaded, harvest, sidebar,
      call, result>>

\* a function called on its own
fnVars == <<call, result>>

storeVars == <<fileExists, file, seen>>

loopVars == <<zips, i, mode1, mode2, mode, queries, printed, line, reloaded, harvest>>

submitVars == <<form, before, polls, field, searched>>

\* the polling loop of wait_sidebar_change takes at most this many snapshots
\* that see no change before its deadline passes
MaxPolls == 2

\* ", CA"
RegionSuffix == <<",", " ", "C", "A">>

NoLine == [index |-> 0, zip |-> <<>>, mode |-> "none", found |-> 0, unique |-> 0, new |-> 0]

NoReload == [at |-> -1, done |-> FALSE]

\* the awaits of set_query_and_search_fast
SubmitPoints ==
    {"radius_wait", "radius_select", "before_snap", "write", "probe", "call_search",
     "button_wait", "click", "poll_snap", "poll_sleep", "final_snap"}

BootPoints == {"boot_page", "boot_frame", "boot_input", "boot_radius"}

RefreshPoints == {"reload", "re_frame", "re_input", "re_radius"}

\* every await of run()
SuspensionPoints ==
    BootPoints \cup RefreshPoints \cup SubmitPoints \cup {"merge_snap", "delay", "close"}

Ended == {"done", "aborted", "stopped"}

NoCall == [fn |-> "none"]

NoResult == [returned |-> FALSE]

Returned(v) == [returned |-> TRUE, value |-> v]

\* the script is not started yet
NotStarted ==
    /\ pc = "start"
    /\ raised = "none"
    /\ fileExists = FALSE
    /\ file = <<>>
    /\ seen = {}
    /\ zips = <<>>
    /\ i = -1
    /\ mode1 = "none"
    /\ mode2 = "none"
    /\ mode = "none"
    /\ queries = <<>>
    /\ form = "none"
    /\ before = <<>>
    /\ polls = 0
    /\ field = "unwritten"
    /\ searched = FALSE
    /\ printed = 0
    /\ line = NoLine
    /\ reloaded = NoReload
    /\ harvest = {}
    /\ sidebar = PanelEmpty

Init ==
    /\ args \in Args
    /\ NotStarted
    /\ call = NoCall
    /\ result = NoResult

\* the process is gone: an exception left run(), or it was interrupted
Gone ==
    /\ seen' = {}
    /\ zips' = <<>>
    /\ i' = -1
    /\ mode1' = "none"
    /\ mode2' = "none"
    /\ mode' = "none"
    /\ queries' = <<>>
    /\ form' = "none"
    /\ before' = <<>>
    /\ polls' = 0
    /\ field' = "unwritten"
    /\ searched' = FALSE
    /\ printed' = 0
    /\ line' = NoLine
    /\ reloaded' = NoReload
    /\ harvest' = {}
    /\ sidebar' = PanelEmpty

\* an exception leaves run() from the place site
Raise(site) ==
    /\ pc' = "aborted"
    /\ raised' = site
    /\ Gone
    /\ UNCHANGED <<fnVars, args, fileExists, file>>

\* lines 185-198: load the store, create the file, generate the seeds
Startup ==
    /\ pc = "start"
    /\ file' = IF fileExists THEN file ELSE Header \o NL
    /\ fileExists' = TRUE
    /\ IF args.zip_step = 0
       THEN /\ pc' = "aborted"
            /\ raised' = "config"
            /\ seen' = {}
            /\ zips' = zips
       ELSE /\ pc' = "boot_page"
            /\ raised' = raised
            /\ seen' = IF fileExists THEN LoadSeen(file) ELSE {}
            /\ zips' = generate_ca_zip_seeds(args.zip_step, TRUE)
    /\ UNCHANGED <<fnVars, args, i, mode1, mode2, mode, queries, printed, line, reloaded,
                   harvest, submitVars, sidebar>>

\* an await that completes and leaves the rest as it is
Proceed(to) ==
    /\ pc' = to
    /\ UNCHANGED <<fnVars, args, raised, storeVars, loopVars, submitVars, sidebar>>

\* lines 201-206: launch, new page, goto, banners
BootPage ==
    /\ pc = "boot_page"
    /\ Proceed("boot_frame") \/ Raise("bootstrap")

\* line 208: get_frame
BootFrame ==
    /\ pc = "boot_frame"
    /\ Proceed("boot_input") \/ Raise("bootstrap")

\* line 209: wait for the input control
BootInput ==
    /\ pc = "boot_input"
    /\ Proceed("boot_radius") \/ Raise("bootstrap")

\* line 210: ensure_radius_50
BootRadius ==
    /\ pc = "boot_radius"
    /\ Proceed("loop_next") \/ Raise("bootstrap")

ShouldReload_FromFirst(k, reload_every) == reload_every > 0 /\ k % reload_every = 0

CapReached_OneLate(k, max_queries) == max_queries # NoCap /\ k > max_queries

\* line 220
ShouldReload(k, reload_every) == k > 0 /\ reload_every > 0 /\ k % reload_every = 0

\* line 217
CapReached(k, max_queries) == max_queries # NoCap /\ k >= max_queries

\* the call set_query_and_search_fast(frame, q) up to its first await
BeginSubmit(f, q) ==
    /\ form' = f
    /\ queries' = Append(queries, q)
    /\ before' = <<>>
    /\ polls' = 0
    /\ field' = "unwritten"
    /\ searched' = FALSE
    /\ pc' = "radius_wait"

\* lines 216-228: the for statement takes the next seed, up to the next await
LoopNext ==
    /\ pc = "loop_next"
    /\ LET k == i + 1
       IN  IF k >= Len(zips)
           THEN /\ pc' = "close"
                /\ UNCHANGED <<i, mode1, mode2, mode, queries, line, reloaded, submitVars>>
           ELSE /\ i' = k
                /\ IF CapReached(k, MaxQueriesOf(args))
                   THEN /\ pc' = "close"
                        /\ UNCHANGED <<mode1, mode2, mode, queries, line, reloaded,
                                       submitVars>>
                   ELSE /\ mode1' = "none"
                        /\ mode2' = "none"
                        /\ mode' = "none"
                        /\ line' = NoLine
                        /\ IF ShouldReload(k, args.reload_every)
                           THEN /\ pc' = "reload"
                                /\ reloaded' = [at |-> k, done |-> FALSE]
                                /\ queries' = <<>>
                                /\ UNCHANGED submitVars
                           ELSE /\ reloaded' = reloaded
                                /\ queries' = <<zips[k + 1]>>
                                /\ form' = "bare"
                                /\ before' = <<>>
                                /\ polls' = 0
                                /\ field' = "unwritten"
                                /\ searched' = FALSE
                                /\ pc' = "radius_wait"
    /\ UNCHANGED <<fnVars, args, raised, storeVars, zips, printed, harvest, sidebar>>

\* line 222: page.reload, and line 223
Reload ==
    /\ pc = "reload"
    /\ Proceed("re_frame") \/ Raise("refresh")

\* line 224
ReFrame ==
    /\ pc = "re_frame"
    /\ Proceed("re_input") \/ Raise("refresh")

\* line 225
ReInput ==
    /\ pc = "re_input"
    /\ Proceed("re_radius") \/ Raise("refresh")

\* line 226, then line 228 up to its first await
ReRadius ==
    /\ pc = "re_radius"
    /\ \/ /\ reloaded' = [reloaded EXCEPT !.done = TRUE]
          /\ BeginSubmit("bare", zips[i + 1])
          /\ UNCHANGED <<fnVars, args, raised, storeVars, zips, i, mode1, mode2, mode, printed,
                         line, harvest, sidebar>>
       \/ Raise("refresh")

\* line 117
RadiusWait ==
    /\ pc = "radius_wait"
    /\ Proceed("radius_select") \/ Raise("submit")

\* line 118
RadiusSelect ==
    /\ pc = "radius_select"
    /\ Proceed("before_snap") \/ Raise("submit")

\* sidebar_snapshot of a panel that shows p
Snapshot(p) == strip(p)

\* line 159
BeforeSnap ==
    /\ pc = "before_snap"
    /\ \E p \in Panels :
          /\ sidebar' = p
          /\ before' = Snapshot(p)
    /\ pc' = "write"
    /\ UNCHANGED <<fnVars, args, raised, storeVars, loopVars, form, polls, field, searched>>

\* lines 161-170: the script finds #addressInput and sets its value to the
\* query, or does not find it and returns; nothing reads the value back
WriteQuery ==
    /\ pc = "write"
    /\ \E el \in BOOLEAN : field' = IF el THEN "query" ELSE "missing"
    /\ pc' = "probe"
    /\ UNCHANGED <<fnVars, args, raised, storeVars, loopVars, form, before, polls, searched,
                   sidebar>>

\* lines 140-143
Probe ==
    /\ pc = "probe"
    /\ \E has_fn \in BOOLEAN :
          Proceed(IF has_fn THEN "call_search" ELSE "button_wait")

\* line 146
CallSearch ==
    /\ pc = "call_search"
    /\ searched' = TRUE
    /\ pc' = "poll_snap"
    /\ UNCHANGED <<fnVars, args, raised, storeVars, loopVars, form, before, polls, field,
                   sidebar>>

\* line 148
ButtonWait ==
    /\ pc = "button_wait"
    /\ Proceed("click") \/ Raise("submit")

\* lines 149-154: the button, if it is still there, is clicked
Click ==
    /\ pc = "click"
    /\ \E btn \in BOOLEAN : searched' = btn
    /\ pc' = "poll_snap"
    /\ UNCHANGED <<fnVars, args, raised, storeVars, loopVars, form, before, polls, field,
                   sidebar>>

Outcome_AnyText(a, b) == IF Len(a) > 0 THEN "ok" ELSE "failed"

\* line 174
Outcome(a, b) == IF Len(a) > 0 /\ a # b THEN "ok" ELSE "failed"

\* lines 229 and 233
ModeOf(f, outcome) ==
    IF outcome = "ok" THEN (IF f = "bare" THEN "zip" ELSE "zip_ca") ELSE "failed"

NeedsFallback_Always(m1) == TRUE

\* line 231
NeedsFallback(m1) == m1 = "failed"

\* wait_sidebar_change returns a: line 174, then lines 229-235 up to the
\* next await
Return(a) ==
    LET outcome == Outcome(a, before)
    IN  /\ mode' = ModeOf(form, outcome)
        /\ IF form = "bare"
           THEN /\ mode1' = outcome
                /\ mode2' = mode2
                /\ IF NeedsFallback(outcome)
                   THEN BeginSubmit("qualified", zips[i + 1] \o RegionSuffix)
                   ELSE /\ pc' = "merge_snap"
                        /\ before' = <<>>
                        /\ polls' = 0
                        /\ field' = "unwritten"
                        /\ searched' = FALSE
                        /\ UNCHANGED <<form, queries>>
           ELSE /\ mode2' = outcome
                /\ mode1' = mode1
                /\ pc' = "merge_snap"
                /\ before' = <<>>
                /\ polls' = 0
                /\ field' = "unwritten"
                /\ searched' = FALSE
                /\ UNCHANGED <<form, queries>>

\* line 133
Changed(now, b) == Len(now) > 0 /\ now # b

\* lines 132-135: one snapshot of the polling loop
PollSnap ==
    /\ pc = "poll_snap"
    /\ \E p \in Panels :
          /\ sidebar' = p
          /\ IF Changed(Snapshot(p), before)
             THEN Return(Snapshot(p))
             ELSE /\ pc' = "poll_sleep"
                  /\ polls' = polls + 1
                  /\ UNCHANGED <<mode1, mode2, mode, queries, form, before, field,
                                 searched>>
    /\ UNCHANGED <<fnVars, args, raised, storeVars, zips, i, printed, line, reloaded, harvest>>

\* line 135, then the loop condition of line 131
PollSleep ==
    /\ pc = "poll_sleep"
    /\ \/ polls < MaxPolls /\ Proceed("poll_snap")
       \/ Proceed("final_snap")

\* line 136: the snapshot after the deadline
FinalSnap ==
    /\ pc = "final_snap"
    /\ \E p \in Panels :
          /\ sidebar' = p
          /\ Return(Snapshot(p))
    /\ UNCHANGED <<fnVars, args, raised, storeVars, zips, i, printed, line, reloaded, harvest>>

\* line 236
Extracted(sidebar_text) ==
    IF Len(sidebar_text) > 0 THEN extract_unique_addresses(sidebar_text) ELSE <<>>

ProgressLine_FoundIsNew(k, z, m, addrs, seenNow, new_addrs) ==
    [index |-> k + 1, zip |-> z, mode |-> m, found |-> Len(new_addrs),
     unique |-> Cardinality(seenNow), new |-> Len(new_addrs)]

\* line 247
ProgressLine(k, z, m, addrs, seenNow, new_addrs) ==
    [index |-> k + 1, zip |-> z, mode |-> m, found |-> Len(addrs),
     unique |-> Cardinality(seenNow), new |-> Len(new_addrs)]

Appended_Truncating(text, new_addrs) == Header \o NL \o Written(new_addrs)

\* lines 239-244: the file after new_addrs are appended
Appended(text, new_addrs) == text \o Written(new_addrs)

Elems(seq) == {seq[k] : k \in 1..Len(seq)}

\* Extracted(Snapshot(p)) for each panel, computed once
PanelAddrs == [p \in Panels |-> Extracted(Snapshot(p))]

\* lines 237-247 with addrs and new_addrs
MergeNew(addrs, new_addrs) ==
    /\ file' = Appended(file, new_addrs)
    /\ seen' = seen \cup Added(new_addrs)
    /\ line' = ProgressLine(i, zips[i + 1], mode, addrs, seen', new_addrs)
    /\ harvest' = harvest \cup Elems(addrs)

\* lines 237-247 with addrs
MergeAddrs(addrs) == MergeNew(addrs, NewAddrs(addrs, seen))

\* lines 235-249: snapshot, extract, merge into the store, report
Merge ==
    /\ pc = "merge_snap"
    /\ \E p \in Panels :
          /\ sidebar' = p
          /\ MergeAddrs(PanelAddrs[p])
    /\ printed' = printed + 1
    /\ pc' = IF args.delay_ms > 0 THEN "delay" ELSE "loop_next"
    /\ UNCHANGED <<fnVars, args, raised, fileExists, zips, i, mode1, mode2, mode, queries,
                   reloaded, submitVars>>

\* line 250
Delay ==
    /\ pc = "delay"
    /\ Proceed("loop_next")

\* line 252
Close ==
    /\ pc = "close"
    /\ Proceed("done")

\* the process is interrupted while run() is suspended
Stop ==
    /\ pc \in SuspensionPoints
    /\ pc' = "stopped"
    /\ Gone
    /\ UNCHANGED <<fnVars, args, raised, fileExists, file>>

\* the script is started again on the same output file
Restart ==
    /\ pc \in Ended
    /\ pc' = "start"
    /\ raised' = "none"
    /\ Gone
    /\ UNCHANGED <<fnVars, args, fileExists, file>>

Next ==
    \/ Startup
    \/ BootPage
    \/ BootFrame
    \/ BootInput
    \/ BootRadius
    \/ LoopNext
    \/ Reload
    \/ ReFrame
    \/ ReInput
    \/ ReRadius
    \/ RadiusWait
    \/ RadiusSelect
    \/ BeforeSnap
    \/ WriteQuery
    \/ Probe
    \/ CallSearch
    \/ ButtonWait
    \/ Click
    \/ PollSnap
    \/ PollSleep
    \/ FinalSnap
    \/ Merge
    \/ Delay
    \/ Close
    \/ Stop
    \/ Restart

Spec == Init /\ [][Next]_vars

\* the steps of the script itself; the event loop resumes a coroutine whose
\* await has completed or timed out
RunStep ==
    \/ Startup \/ BootPage \/ BootFrame \/ BootInput \/ BootRadius \/ LoopNext
    \/ Reload \/ ReFrame \/ ReInput \/ ReRadius \/ RadiusWait \/ RadiusSelect
    \/ BeforeSnap \/ WriteQuery \/ Probe \/ CallSearch \/ ButtonWait \/ Click
    \/ PollSnap \/ PollSleep \/ FinalSnap \/ Merge \/ Delay \/ Close

FairSpec == Spec /\ WF_vars(RunStep)

(***************************************************************************)
(* generate_ca_zip_seeds called on its own                                 *)
(***************************************************************************)
\* the defaults of argparse
DefaultArgs == [max_queries |-> 0, zip_step |-> 5, reload_every |-> 25, delay_ms |-> 150]

SeedSteps ==
    {-2000, -1, 0, 1, 5, 2000, 3100, 6199, 6200, 12398, 12399, 20000} \cup (990..1010)

SeedCalls ==
    [fn : {"generate_ca_zip_seeds"}, step : SeedSteps, jitter : BOOLEAN]

\* an exception left the call
Failed(e) == [returned |-> FALSE, raised |-> e]

SeedInit ==
    /\ args = DefaultArgs
    /\ NotStarted
    /\ call \in SeedCalls
    /\ result = NoResult

\* lines 29-31; range() raises ValueError for a step of 0
Generate ==
    /\ call.fn = "generate_ca_zip_seeds"
    /\ result = NoResult
    /\ result' = IF call.step = 0
                 THEN Failed("ValueError")
                 ELSE Returned(generate_ca_zip_seeds(call.step, call.jitter))
    /\ UNCHANGED <<call, args, pc, raised, storeVars, loopVars, submitVars, sidebar>>

SeedSpec == SeedInit /\ [][Generate]_vars

(***************************************************************************)
(* norm called on its own                                                  *)
(***************************************************************************)
\* the strings over alphabet of length up to n
Strings(alphabet, n) == UNION {[1..k -> alphabet] : k \in 0..n}

NormAlphabet == {"A", "1", ",", " ", "\n"}

MaxNormLen == 5

\* "X , Y", "X ,Y", "  A   ,B " and "A ,\n B"
NormExamples ==
    { <<"X", " ", ",", " ", "Y">>,
      <<"X", " ", ",", "Y">>,
      <<" ", " ", "A", " ", " ", " ", ",", "B", " ">>,
      <<"A", " ", ",", "\n", " ", "B">> }

NormCalls == [fn : {"norm"}, s : Strings(NormAlphabet, MaxNormLen) \cup NormExamples]

NormInit ==
    /\ args = DefaultArgs
    /\ NotStarted
    /\ call \in NormCalls
    /\ result = NoResult

\* lines 34-38
Normalize ==
    /\ call.fn = "norm"
    /\ result = NoResult
    /\ result' = Returned(norm(call.s))
    /\ UNCHANGED <<call, args, pc, raised, storeVars, loopVars, submitVars, sidebar>>

NormSpec == NormInit /\ [][Normalize]_vars

(***************************************************************************)
(* extract_unique_addresses called on its own                              *)
(***************************************************************************)
\* "12 A,"
LineStreet == <<"1", "2", " ", "A", ",">>

\* "B,"
LineCity == <<"B", ",">>

\* "CA 94000"
LineZip == <<"C", "A", " ", "9", "4", "0", "0", "0">>

\* "12 A, B, CA 94000"
LineWhole == <<"1", "2", " ", "A", ",", " ", "B", ",", " ", "C", "A", " ", "9", "4", "0", "0", "0">>

\* "12 A B CA 94000"
LineNoComma == <<"1", "2", " ", "A", " ", "B", " ", "C", "A", " ", "9", "4", "0", "0", "0">>

ExtractLines == {LineStreet, LineCity, LineZip, LineWhole, LineNoComma}

MaxLines == 4

\* "123 Main St,\nSpringfield,\nCA 94000"
TextSplitAddress ==
    <<"1", "2", "3", " ", "M", "a", "i", "n", " ", "S", "t", ",", "\n",
      "S", "p", "r", "i", "n", "g", "f", "i", "e", "l", "d", ",", "\n",
      "C", "A", " ", "9", "4", "0", "0", "0">>

\* "123 Main St Springfield CA 94000"
TextNoComma ==
    <<"1", "2", "3", " ", "M", "a", "i", "n", " ", "S", "t", " ", "S", "p", "r", "i", "n", "g", "f", "i", "e", "l", "d", " ", "C", "A", " ", "9", "4", "0", "0", "0">>

\* the texts of 1 to MaxLines of the lines, one per line
ExtractTexts ==
    {Join(<<"\n">>, ls) : ls \in UNION {[1..k -> ExtractLines] : k \in 1..MaxLines}}
      \cup {TextSplitAddress, TextNoComma}

ExtractCalls == [fn : {"extract_unique_addresses"}, text : ExtractTexts]

ExtractInit ==
    /\ args = DefaultArgs
    /\ NotStarted
    /\ call \in ExtractCalls
    /\ result = NoResult

\* lines 60-93
Extract ==
    /\ call.fn = "extract_unique_addresses"
    /\ result = NoResult
    /\ result' = Returned(extract_unique_addresses(call.text))
    /\ UNCHANGED <<call, args, pc, raised, storeVars, loopVars, submitVars, sidebar>>

ExtractSpec == ExtractInit /\ [][Extract]_vars

(***************************************************************************)
(* What the claims speak of                                                *)
(***************************************************************************)
\* the address lines of the durable log
LogLines == AfterHeader(file)

\* run() is alive and past the startup load
Loaded == pc \in SuspensionPoints \cup {"loop_next", "done"}

\* the cycle of seed number i has begun and the next has not
InCycle ==
    \/ pc \in RefreshPoints \cup SubmitPoints \cup {"merge_snap", "delay"}
    \/ pc = "loop_next" /\ i >= 0 /\ line.index = i + 1

\* the progress line of seed number i is printed
Reported == InCycle /\ line.index = i + 1

IsPrefix(a, b) == Len(a) <= Len(b) /\ SubSeq(b, 1, Len(a)) = a

(***************************************************************************)
(* C1: for every seed, the qualified form "<seed>, CA" is submitted if and *)
(* only if the bare submit returned failed, and at most once; the mode of  *)
(* the progress line is zip exactly when the bare submit was ok, zip_ca    *)
(* exactly when the bare one failed and the qualified one was ok, failed   *)
(* exactly when both failed.                                               *)
(***************************************************************************)
C1_FallbackOnceAndMode ==
    InCycle =>
        /\ Len(queries) <= 2
        /\ Len(queries) >= 1 => queries[1] = zips[i + 1]
        /\ Len(queries) = 2 <=> mode1 = "failed"
        /\ Len(queries) = 2 => queries[2] = zips[i + 1] \o <<",", " ", "C", "A">>
        /\ mode2 # "none" => mode1 = "failed"
        /\ Reported =>
              /\ mode1 \in {"ok", "failed"}
              /\ line.mode = "zip" <=> mode1 = "ok"
              /\ line.mode = "zip_ca" <=> (mode1 = "failed" /\ mode2 = "ok")
              /\ line.mode = "failed" <=> (mode1 = "failed" /\ mode2 = "failed")

C1_Witness == Reported /\ line.mode = "zip_ca" /\ Len(queries) = 2

(***************************************************************************)
(* C2: when both submits of a seed return failed, its progress line reports*)
(* mode=failed, found=0 and new=0 and nothing is appended, whatever the    *)
(* panel shows.                                                            *)
(***************************************************************************)
C2_BothFailedFindsNothing ==
    (Reported /\ mode1 = "failed" /\ mode2 = "failed") =>
        (line.mode = "failed" /\ line.found = 0 /\ line.new = 0)

\* both submits failed on a panel that still shows an address, which is counted
C2_Witness ==
    Reported /\ mode1 = "failed" /\ mode2 = "failed" /\ line.mode = "failed"
             /\ line.found > 0

(***************************************************************************)
(* C3: every address line of the durable log appears exactly once, also    *)
(* across a stop and a restart on the same file.                           *)
(***************************************************************************)
C3_LogLinesDistinct ==
    \A j, k \in 1..Len(LogLines) : LogLines[j] = LogLines[k] => j = k

\* the first cycle of a run finds only addresses the startup load brought in
C3_Witness ==
    Reported /\ printed = 1 /\ line.found = 2 /\ line.new = 0 /\ Len(LogLines) = 2

(***************************************************************************)
(* C4: after the startup load and at every suspension point, seen is the   *)
(* set of address lines of the log, deduplicated by normalized string; a   *)
(* log of N distinct addresses loads as N entries.                         *)
(***************************************************************************)
\* norm of the addresses the panels can yield, computed once
C4_NormOfKnown == [a \in UNION {Elems(PanelAddrs[p]) : p \in Panels} |-> norm(a)]

C4_Norm(l) == IF l \in DOMAIN C4_NormOfKnown THEN C4_NormOfKnown[l] ELSE norm(l)

C4_SeenMirrorsLog ==
    Loaded =>
        /\ seen = {C4_Norm(LogLines[k]) : k \in 1..Len(LogLines)}
        /\ Cardinality(seen) = Len(LogLines)

\* right after a startup load that brought in two addresses
C4_Witness == pc = "boot_page" /\ Cardinality(seen) = 2

(***************************************************************************)
(* C5: the log is append-only and always valid: once the file exists its   *)
(* first line is the header, and its content at any point is a prefix of   *)
(* its content at every later point.                                       *)
(***************************************************************************)
C5_HeaderFirst ==
    fileExists => Len(splitlines(file)) >= 1 /\ splitlines(file)[1] = Header

C5_AppendOnly ==
    /\ []C5_HeaderFirst
    /\ [][fileExists => (fileExists' /\ IsPrefix(file, file'))]_vars

\* a run starts on a file that holds two addresses
C5_Witness == pc = "start" /\ fileExists /\ Len(LogLines) = 2

(***************************************************************************)
(* C6: with E the addresses extracted from the panel and S the content of  *)
(* the store before the cycle, the cycle appends exactly the elements of E *)
(* that are not in S, each once and in the order of E; found is |E|, new   *)
(* is the number appended, unique is |S| plus new, and the log grows by    *)
(* exactly new lines.                                                      *)
(***************************************************************************)
RECURSIVE C6_Lines(_)
C6_Lines(as) == IF Len(as) = 0 THEN <<>> ELSE Head(as) \o NL \o C6_Lines(Tail(as))

C6_Fresh(E, S) ==
    LET fresh(e) == e \notin S
    IN  SelectSeq(E, fresh)

C6_CycleOf(E, S) ==
    /\ file' = file \o C6_Lines(C6_Fresh(E, S))
    /\ line'.found = Len(E)
    /\ line'.new = Len(C6_Fresh(E, S))
    /\ line'.unique = Cardinality(S) + line'.new
    /\ Len(AfterHeader(file')) = Len(LogLines) + line'.new
    /\ C6_Fresh(C6_Fresh(E, S), {}) = C6_Fresh(E, S)
    /\ Cardinality(Elems(C6_Fresh(E, S))) = Len(C6_Fresh(E, S))

C6_CycleMergesNew ==
    [][printed' = printed + 1 => C6_CycleOf(PanelAddrs[sidebar'], Elems(LogLines))]_vars

\* two addresses found, one of them already stored
C6_Witness == Reported /\ line.found = 2 /\ line.new = 1 /\ line.unique = 2

(***************************************************************************)
(* C7: seeds are processed one at a time: while a seed is being submitted  *)
(* or refreshed, every earlier seed has printed its line, and at every     *)
(* suspension point every address found by a completed cycle is already in *)
(* the log, so that an interruption loses at most the seed in progress.    *)
(***************************************************************************)
C7_CompletedSeedsAreStored ==
    /\ pc \in RefreshPoints \cup SubmitPoints \cup {"merge_snap"} => printed = i
    /\ pc \in {"delay"} => printed = i + 1
    /\ pc \in SuspensionPoints => harvest \subseteq Elems(LogLines)
    /\ pc \in SuspensionPoints \ BootPoints => printed \in {i, i + 1}

\* the second seed is being submitted and the first one's addresses are stored
C7_Witness == pc \in SubmitPoints /\ i = 1 /\ printed = 1 /\ Cardinality(harvest) = 2

(***************************************************************************)
(* C8: with a positive refresh interval R the page is refreshed before the *)
(* query of the seed of zero-based index i if and only if i > 0 and i is a *)
(* multiple of R, never before seed 0 and never when R is 0; the refresh   *)
(* completes its re-bootstrap before the seed's first submit.              *)
(***************************************************************************)
C8_Due == args.reload_every > 0 /\ i > 0 /\ i % args.reload_every = 0

C8_RefreshEveryR ==
    /\ pc \in RefreshPoints => (C8_Due /\ reloaded = [at |-> i, done |-> FALSE]
                                /\ queries = <<>>)
    /\ (InCycle /\ pc \notin RefreshPoints) =>
          /\ C8_Due <=> reloaded.at = i
          /\ C8_Due => reloaded.done
    /\ args.reload_every <= 0 => reloaded = NoReload
    /\ reloaded.at # 0

\* seed 2 is submitted after the refresh that an interval of 2 makes due
C8_Witness ==
    /\ pc = "radius_wait" /\ i = 2 /\ args.reload_every = 2
    /\ reloaded = [at |-> 2, done |-> TRUE]

(***************************************************************************)
(* C9: the run is done exactly on exhaustion of the seeds or on reaching   *)
(* the cap: seeds are processed in generator order, min(n, cap) of them    *)
(* for a positive cap and all n otherwise, none after the cap, and every   *)
(* run ends.                                                               *)
(***************************************************************************)
C9_Quota ==
    IF args.max_queries > 0 THEN Min(Len(zips), args.max_queries) ELSE Len(zips)

C9_Counts ==
    /\ pc \in {"close", "done"} => printed = C9_Quota
    /\ Loaded => printed <= C9_Quota
    /\ (InCycle /\ args.max_queries > 0) => i < args.max_queries
    /\ Reported => (line.index = printed /\ line.zip = zips[printed])
    /\ InCycle => \A k \in 1..Len(queries) : SubSeq(queries[k], 1, 5) = zips[i + 1]

C9_StopsAtCapOrEnd == []C9_Counts /\ (pc = "start" ~> pc \in Ended)

\* three seeds, a cap of two, two queried
C9_Witness == pc = "done" /\ args.max_queries = 2 /\ Len(zips) = 3 /\ printed = 2

(***************************************************************************)
(* C10: no timeout, missing selector or navigation error met after the     *)
(* bootstrap aborts the run.                                               *)
(***************************************************************************)
C10_NoAbortAfterBootstrap == pc = "aborted" => raised \in {"config", "bootstrap"}

\* a wait inside a submit of the seed loop timed out and ended the run
C10_Witness == pc = "aborted" /\ raised = "submit"

(***************************************************************************)
(* C11: for every step > 0 the seeds are, in increasing order, exactly the *)
(* values start, start + step, start + 2 step, ... that do not exceed      *)
(* 96199, where start is 90000 without jitter and 90000 + step div 2 with  *)
(* it; every seed is a string of 5 digits whose value is in 90000..96199.  *)
(***************************************************************************)
C11_Digit(c) ==
    CASE c = "0" -> 0 [] c = "1" -> 1 [] c = "2" -> 2 [] c = "3" -> 3 [] c = "4" -> 4
      [] c = "5" -> 5 [] c = "6" -> 6 [] c = "7" -> 7 [] c = "8" -> 8 [] c = "9" -> 9
      [] OTHER -> -100000

C11_Value(s) ==
    10000 * C11_Digit(s[1]) + 1000 * C11_Digit(s[2]) + 100 * C11_Digit(s[3])
      + 10 * C11_Digit(s[4]) + C11_Digit(s[5])

C11_Start == IF call.jitter THEN 90000 + (call.step \div 2) ELSE 90000

C11_Progression(seeds) ==
    IF C11_Start > 96199
    THEN seeds = <<>>
    ELSE /\ Len(seeds) >= 1
         /\ C11_Value(seeds[1]) = C11_Start
         /\ \A k \in 1..(Len(seeds) - 1) :
               C11_Value(seeds[k + 1]) = C11_Value(seeds[k]) + call.step
         /\ C11_Value(seeds[Len(seeds)]) <= 96199
         /\ C11_Value(seeds[Len(seeds)]) + call.step > 96199

C11_SeedsAreTheProgression ==
    (call.fn = "generate_ca_zip_seeds" /\ call.step > 0 /\ result # NoResult) =>
        /\ result.returned
        /\ C11_Progression(result.value)
        /\ \A k \in 1..Len(result.value) :
              /\ Len(result.value[k]) = 5
              /\ \A d \in 1..5 : result.value[k][d] \in Digits
              /\ C11_Value(result.value[k]) \in 90000..96199

\* a step that lands exactly on 96199, which is a seed then
C11_Witness ==
    /\ call.fn = "generate_ca_zip_seeds" /\ call.step = 6199 /\ ~call.jitter
    /\ result # NoResult /\ result.returned
    /\ result.value = <<Format05d(90000), Format05d(96199)>>

(***************************************************************************)
(* C12: for a step of 0 and for every negative step the seed generation    *)
(* fails with a configuration error before any query is submitted; the run *)
(* never goes on with an empty seed list to finish with nothing processed. *)
(***************************************************************************)
C12_DegenerateStepFailsFast ==
    args.zip_step <= 0 =>
        /\ pc \in {"start", "aborted"}
        /\ pc = "aborted" => raised = "config"

\* a negative step: the run is done with no seed and no query
C12_Witness ==
    pc = "done" /\ args.zip_step < 0 /\ zips = <<>> /\ printed = 0 /\ raised = "none"

(***************************************************************************)
(* C13: in norm(s) no comma is preceded by whitespace and every comma that *)
(* is followed by more text is followed by exactly one space: "X , Y" and  *)
(* "X ,Y" become "X, Y" and "  A   ,B " becomes "A, B"; runs of whitespace *)
(* are one space and the ends are trimmed.                                 *)
(***************************************************************************)
C13_Tight(r) ==
    /\ \A k \in 1..Len(r) : r[k] \in Whitespace => r[k] = " "
    /\ \A k \in 1..(Len(r) - 1) : ~(r[k] = " " /\ r[k + 1] = " ")
    /\ Len(r) > 0 => (r[1] # " " /\ r[Len(r)] # " ")
    /\ \A k \in 2..Len(r) : r[k] = "," => r[k - 1] # " "
    /\ \A k \in 1..(Len(r) - 1) : r[k] = "," => r[k + 1] = " "

C13_Examples ==
    /\ call.s = <<"X", " ", ",", " ", "Y">> => result.value = <<"X", ",", " ", "Y">>
    /\ call.s = <<"X", " ", ",", "Y">> => result.value = <<"X", ",", " ", "Y">>
    /\ call.s = <<" ", " ", "A", " ", " ", " ", ",", "B", " ">>
          => result.value = <<"A", ",", " ", "B">>

C13_CommaSpacingTight ==
    (call.fn = "norm" /\ result # NoResult) =>
        (result.returned /\ C13_Tight(result.value) /\ C13_Examples)

\* "X ,Y" comes out as "X,Y"
C13_Witness ==
    /\ call.fn = "norm" /\ call.s = <<"X", " ", ",", "Y">>
    /\ result = Returned(<<"X", ",", "Y">>)

(***************************************************************************)
(* C14: norm is idempotent on strings of letters, digits, commas, spaces   *)
(* and newlines; what it returns holds no line break and is left unchanged *)
(* by strip.                                                               *)
(***************************************************************************)
C14_NormIdempotent ==
    (call.fn = "norm" /\ result # NoResult) =>
        /\ result.returned
        /\ norm(result.value) = result.value
        /\ \A k \in 1..Len(result.value) : result.value[k] \notin LineBreaks
        /\ strip(result.value) = result.value

\* an input with a newline and loose commas, which norm changes
C14_Witness ==
    /\ call.fn = "norm" /\ call.s = <<"A", " ", ",", "\n", " ", "B">>
    /\ result = Returned(<<"A", ",", " ", "B">>)

(***************************************************************************)
(* C15: the windowed pass recovers an address split across lines: at a     *)
(* line with the anchor, the joins of the last k lines of the window are   *)
(* tried for k = 2, 3, 4, 5 and the first k whose join has a structural    *)
(* address match wins; "123 Main St," / "Springfield," / "CA 94000" gives  *)
(* exactly ["123 Main St, Springfield, CA 94000"].                         *)
(***************************************************************************)
C15_JoinOfLast(lines, n, k) == Cleaned(Join(<<" ">>, LastK(BlockAt(lines, n), k)))

C15_Structural(s) == Found(ADDRESS_EXTRACT, s)

\* the structural address matched at m in s
C15_StructuralAt(s, m) == norm(SubSeq(s, m[1], m[2] - 1))

\* the k whose join of the last k lines before line n has a structural match
C15_Ks(lines, n) ==
    {k \in 2..5 : k <= Len(BlockAt(lines, n))
                  /\ \E s \in {C15_JoinOfLast(lines, n, k)} : C15_Structural(s)}

\* the structural address of the join of the smallest such k is among found
C15_FirstWins(lines, n, found) ==
    (Found(ZIP_ANCHOR, lines[n]) /\ C15_Ks(lines, n) # {}) =>
        \A k \in {MinOf(C15_Ks(lines, n))} :
            \A s \in {C15_JoinOfLast(lines, n, k)} :
                \A m \in {Search(ADDRESS_EXTRACT, s)} :
                    InSeq(C15_StructuralAt(s, m), found)

C15_WindowRecoversSplitAddress ==
    (call.fn = "extract_unique_addresses" /\ result # NoResult) =>
        /\ result.returned
        /\ \A lines \in {cleaned_lines(call.text)} :
              \A n \in 1..Len(lines) : C15_FirstWins(lines, n, result.value)
        /\ call.text = TextSplitAddress =>
              result.value = <<<<"1", "2", "3", " ", "M", "a", "i", "n", " ", "S", "t", ",", " ", "S", "p", "r", "i", "n", "g", "f", "i", "e", "l", "d", ",", " ", "C", "A", " ", "9", "4", "0", "0", "0">>>>

\* the three-line example yields the last two lines only
C15_Witness ==
    /\ call.fn = "extract_unique_addresses" /\ call.text = TextSplitAddress
    /\ result = Returned(<<<<"S", "p", "r", "i", "n", "g", "f", "i", "e", "l", "d", ",", " ", "C", "A", " ", "9", "4", "0", "0", "0">>>>)

(***************************************************************************)
(* C18: in the anchor pass every line that holds the anchor and a digit    *)
(* but no structural address match after the decorations are stripped is   *)
(* emitted whole as a best-effort address, also a line without any comma   *)
(* such as "123 Main St Springfield CA 94000".                             *)
(***************************************************************************)
\* s is the line after the decorations are stripped
C18_BestEffortLine(s, found) ==
    (/\ Found(ZIP_ANCHOR, s)
     /\ \E k \in 1..Len(s) : s[k] \in Digits
     /\ ~Found(ADDRESS_EXTRACT, s))
        => InSeq(s, found)

C18_AnchorLineKeptWhole ==
    (call.fn = "extract_unique_addresses" /\ result # NoResult) =>
        /\ result.returned
        /\ \A lines \in {cleaned_lines(call.text)} :
              \A n \in 1..Len(lines) :
                  \A s \in {Cleaned(lines[n])} : C18_BestEffortLine(s, result.value)
        /\ call.text = TextNoComma => result.value = <<TextNoComma>>

\* the line without a comma yields nothing
C18_Witness ==
    /\ call.fn = "extract_unique_addresses" /\ call.text = TextNoComma
    /\ result = Returned(<<>>)

(***************************************************************************)
(* C16: within one submit call the search is triggered only after the      *)
(* input field holds the query; when the field does not hold it (the       *)
(* control is missing, or the write did not commit) the search is not      *)
(* triggered and the call returns failed.                                  *)
(***************************************************************************)
C16_Returns == pc \in {"poll_snap", "final_snap"} /\ pc' \in {"merge_snap", "radius_wait"}

C16_SearchOnlyAfterCommit ==
    /\ [](searched => field = "query")
    /\ [][(C16_Returns /\ field # "query") =>
              (IF form = "bare" THEN mode1' ELSE mode2') = "failed"]_vars

\* the search was triggered although #addressInput was not found
C16_Witness == pc = "poll_snap" /\ field = "missing" /\ searched

(***************************************************************************)
(* C17: before is the snapshot taken after the radius is forced and before *)
(* the query is written; the polling loop stops at the first snapshot that *)
(* is non-empty and differs from before, or at the deadline; the call      *)
(* returns ok if and only if the last snapshot is non-empty and differs    *)
(* from before, failed otherwise.                                          *)
(***************************************************************************)
C17_InCall ==
    {"write", "probe", "call_search", "button_wait", "click", "poll_snap", "poll_sleep",
     "final_snap"}

C17_Differs(snapshot) == snapshot # <<>> /\ snapshot # before

\* the call returns to run() in this step
C17_Returns == pc' \in {"merge_snap", "radius_wait"}

C17_ReturnsOutcome(outcome) ==
    /\ C17_Returns
    /\ (IF form = "bare" THEN mode1' ELSE mode2') = outcome

C17_Step ==
    /\ (pc = "before_snap" /\ pc' = "write") => before' = strip(sidebar')
    /\ (pc \in C17_InCall /\ pc' \in C17_InCall) => before' = before
    /\ (pc = "poll_snap" /\ pc' # "stopped") =>
          IF C17_Differs(strip(sidebar'))
          THEN C17_ReturnsOutcome("ok")
          ELSE pc' = "poll_sleep"
    /\ (pc = "final_snap" /\ pc' # "stopped") =>
          IF C17_Differs(strip(sidebar'))
          THEN C17_ReturnsOutcome("ok")
          ELSE C17_ReturnsOutcome("failed")

C17_OkIffPanelChanged == [][C17_Step]_vars

\* the bare submit has returned failed on a panel that shows text, unchanged
C17_Witness ==
    /\ pc = "radius_wait" /\ form = "qualified" /\ mode1 = "failed"
    /\ sidebar = PanelOne

=============================================================================
